---- MODULE Spec2Model ----
(***************************************************************************)
(* Model of backend/routes/assistantRoutes.js: the two Express routes      *)
(* POST /ask and POST /audio that bridge a request to a spawned Python     *)
(* child process, and the inventory fetch helper.                          *)
(*                                                                         *)
(* Strings are sequences of one-character strings, so that trim(),         *)
(* toLowerCase() and += concatenation are computed, not assumed.           *)
(***************************************************************************)
EXTENDS Integers, Sequences, FiniteSets, TLC

\* ------------------------------------------------------------------ bounds
NumReq == 2          \* requests the server receives in one run
MaxData == 2         \* 'data' events (stdout and stderr together) in one run
MaxFaults == 1       \* failures of the environment (query, spawn, unlink) in one run
MaxRecords == 2      \* records returned by Ingredient.find({})
MaxNameLen == 1      \* characters in an ingredient name

Requests == 1..NumReq
Pids == Requests     \* a child process is named after the request whose spawn() made it

\* ------------------------------------------------------- strings (as Seq)
WS == {" "}

RECURSIVE trimStart(_)
trimStart(s) == IF s # <<>> /\ Head(s) \in WS THEN trimStart(Tail(s)) ELSE s

RECURSIVE trimEnd(_)
trimEnd(s) ==
  IF s # <<>> /\ s[Len(s)] \in WS THEN trimEnd(SubSeq(s, 1, Len(s) - 1)) ELSE s

\* String.prototype.trim()
trim(s) == trimEnd(trimStart(s))

Chars(s) == {s[i] : i \in 1..Len(s)}

SeqsUpTo(S, n) == UNION {[1..k -> S] : k \in 0..n}

\* ------------------------------------------------------ request body text
\* req.body.text is any JSON value; the handler only looks at its type,
\* its truthiness and, for a string, its characters.
Str(s) == [type |-> "string", str |-> s, num |-> 0]
Num(n) == [type |-> "number", str |-> <<>>, num |-> n]
Undefined == [type |-> "undefined", str |-> <<>>, num |-> 0]

\* the question a client asks: every request asks about another item
Question(r) == <<ToString(r)>>

\* the values of req.body.text request r may carry
TextInputs(r) ==
  {Undefined, Num(5), Str(<<>>), Str(<<" ">>), Str(Question(r))}

\* JavaScript truthiness of the values above
Truthy(v) ==
  CASE v.type = "undefined" -> FALSE
    [] v.type = "number" -> v.num # 0
    [] v.type = "string" -> Len(v.str) > 0

\* line 62 without the trim(): whitespace-only text would pass
TextRejectedNoTrim(text) ==
  \/ ~Truthy(text)
  \/ text.type # "string"
  \/ Len(text.str) = 0

\* line 62: !text || typeof text !== "string" || text.trim().length === 0
TextRejected(text) ==
  \/ ~Truthy(text)
  \/ text.type # "string"
  \/ Len(trim(text.str)) = 0

\* ------------------------------------------------------------------ state
VARIABLES
  route,        \* per request: "none" (not received yet), "ask" or "audio"
  text,         \* per request: req.body.text
  hasFile,      \* per request: req.file is set (multer stored an upload)
  pc,           \* per request: position of the async route handler
  python,       \* per request: the child returned by spawn(), 0 when none
  data,         \* per request: the closure's stdout buffer
  errorOutput,  \* per request: the closure's stderr buffer
  sends,        \* per request: the res.status().json() calls made, in order
  uncaught,     \* per request: a listener threw (headers already sent)
  logs,         \* per request: the console.error messages written
  dbq,          \* per request: calls of Ingredient.find({})
  query,        \* per request: "none", "pending", "resolved" or "rejected"
  fileExists,   \* per request: the temporary upload is on disk
  unlink,       \* per request: fs.unlink "none", "pending", "ok" or "failed"
  spawnCalls,   \* per request: the calls of spawn() it made (a spy on child_process)
  cstate,       \* per child: "none", "running", "failing", "errored", "closed"
  cargs,        \* per child: the arguments it was spawned with
  cout,         \* per child: everything it wrote to stdout
  cerr,         \* per child: everything it wrote to stderr
  ccode,        \* per child: the code its 'close' event carried
  nData,        \* 'data' events delivered so far
  nFaults,      \* failures of the environment so far
  ingredients,  \* the records Ingredient.find({}) resolves to
  inventory,    \* the map fetchInventoryFromDB built
  fetched,      \* fetchInventoryFromDB has returned
  sep,          \* path.sep of the platform
  fsExists,     \* the interpreter files that exist on disk now
  loaded,       \* the module has been loaded (lines 40-45 have run)
  loadFs,       \* the interpreter files that existed when the module was loaded
  pythonPath,   \* the module-level constant pythonPath
  fallbackUsed, \* getPythonPath returned from its last line
  commands      \* the commands the spawn() calls of the two routes were given

bridgeVars ==
  <<route, text, hasFile, pc, python, data, errorOutput, sends, uncaught, logs,
    dbq, query, fileExists, unlink, spawnCalls, cstate, cargs, cout, cerr, ccode, nData, nFaults>>
inventoryVars == <<ingredients, inventory, fetched>>
pathVars == <<sep, fsExists, loaded, loadFs, pythonPath, fallbackUsed, commands>>
vars == <<bridgeVars, inventoryVars, pathVars>>

scriptPath == "assistant.py"

ExitCodes == {0, 1}        \* codes a child that ran can close with
SpawnFailCodes == {-2}     \* negative errno carried by 'close' after a failed spawn

\* ---------------------------------------------------------- the responses
\* line 63
NoTextResponse ==
  [by |-> "validate", status |-> 400, body |-> [error |-> "No text provided"]]

\* line 115
NoFileResponse ==
  [by |-> "validate", status |-> 400, body |-> [error |-> "No audio file uploaded"]]

\* lines 86-89 and 157-160
StartFailedResponse(rt, message) ==
  [by |-> "error", status |-> 500,
   body |-> [error |-> IF rt = "ask" THEN "Failed to start Python process"
                       ELSE "Failed to start Python audio process",
             details |-> message]]

\* the catch block answering without the exception message
CatchResponseNoDetails(rt, message) ==
  [by |-> "catch", status |-> 500,
   body |-> [error |-> IF rt = "ask" THEN "Assistant failed"
                       ELSE "Assistant audio processing failed"]]

\* lines 105-108 and 164-167
CatchResponse(rt, message) ==
  [by |-> "catch", status |-> 500,
   body |-> [error |-> IF rt = "ask" THEN "Assistant failed"
                       ELSE "Assistant audio processing failed",
             details |-> message]]

\* the close test with the exit code dropped
CloseFailsStderrOnly(code, errOut) == errOut # <<>>

\* the close test with the stderr buffer dropped
CloseFailsCodeOnly(code, errOut) == code # 0

\* lines 93 and 144: code !== 0 || errorOutput
CloseFails(code, errOut) == code # 0 \/ errOut # <<>>

\* lines 93-101 and 144-152
CloseResponse(rt, code, out, errOut) ==
  IF CloseFails(code, errOut)
  THEN [by |-> "close", status |-> 500,
        body |-> [error |-> IF rt = "ask" THEN "Python process failed"
                            ELSE "Python audio process failed",
                  code |-> code,
                  stderr |-> trim(errOut)]]
  ELSE IF rt = "ask"
       THEN [by |-> "close", status |-> 200, body |-> [reply |-> trim(out)]]
       ELSE [by |-> "close", status |-> 200, body |-> [response |-> trim(out)]]

\* a handler that returns or catches without answering
SendNothing(r, resp) == UNCHANGED <<sends, uncaught>>

\* res.status(..).json(..): the call is made; Express throws when the headers
\* of this response were already sent by an earlier call.
Send(r, resp) ==
  /\ sends' = [sends EXCEPT ![r] = Append(@, resp)]
  /\ uncaught' = [uncaught EXCEPT ![r] = @ \/ sends[r] # <<>>]

\* a failure branch that answers without console.error
LogDropped(r, msg) == UNCHANGED logs

\* console.error(msg, ...), lines 85, 94, 104, 141, 145, 156, 163
Log(r, msg) == logs' = [logs EXCEPT ![r] = @ \cup {msg}]

\* --------------------------------------------------- interpreter path
\* lines 16-22: path.join(__dirname, "..", dir, sub, file); the result names
\* the file under the backend directory, its segments joined by path.sep
join(dir, sub, file) == <<"backend", sep, dir, sep, sub, sep, file>>

\* lines 14-28
possiblePaths ==
  <<join(".venv", "Scripts", "python.exe"),
    join("venv", "Scripts", "python.exe"),
    join(".venv", "bin", "python"),
    join("venv", "bin", "python"),
    <<"python.exe">>,
    <<"python3">>,
    <<"python">>>>

\* the four virtual-environment interpreters
VenvFiles == {possiblePaths[i] : i \in 1..4}

\* String.prototype.includes(path.sep)
includes(p, x) == \E i \in 1..Len(p) : p[i] = x

\* the test of line 31 without its second half
acceptedIfExists(p, fs) == p \in fs

\* line 31: fs.existsSync(pythonPath) || !pythonPath.includes(path.sep)
accepted(p, fs) == p \in fs \/ ~includes(p, sep)

\* lines 30-37: the loop from candidate i on, then the fallback
RECURSIVE pathFrom(_, _)
pathFrom(i, fs) ==
  IF i > Len(possiblePaths) THEN [path |-> <<"python">>, fallback |-> TRUE]
  ELSE IF accepted(possiblePaths[i], fs)
       THEN [path |-> possiblePaths[i], fallback |-> FALSE]
       ELSE pathFrom(i + 1, fs)

\* lines 12-38
getPythonPath(fs) == pathFrom(1, fs)

\* spawn() given a path resolved again at every request
SpawnCommandFresh == getPythonPath(fsExists).path

\* lines 70 and 124: spawn(pythonPath, ...)
SpawnCommand == pythonPath

\* --------------------------------------------------------- child processes
\* every spawn() handing out the first child, as a child kept at module level would
FirstChild(r) == 1

\* lines 70 and 124: spawn() returns a new ChildProcess on every call
NewChild(r) == r

\* line 70: spawn(pythonPath, [scriptPath, text])
AskArgs(r) == [script |-> scriptPath, mode |-> "text", text |-> text[r].str, filePath |-> 0]

\* lines 118 and 124: spawn(pythonPath, [scriptPath, "--audio", filePath]);
\* multer names each upload differently, the request's number stands for it
AudioArgs(r) == [script |-> scriptPath, mode |-> "--audio", text |-> <<>>, filePath |-> r]

\* What a child can write: the assistant answers about what it was asked, so
\* its output is made of the characters of its text argument and of blanks
\* ("w" stands for the words transcribed from an audio file).
OutChars(p) ==
  IF cargs[p].mode = "text"
  THEN (Chars(cargs[p].text) \ WS) \cup {" "}
  ELSE {"w", " "}

\* chunks of stdout: the answer starts with a piece that begins or ends with
\* a blank and goes on with pieces that end with one, so that both the order
\* of the chunks and the trimming show in the reply
StdoutChunks(p) ==
  IF cout[p] = <<>>
  THEN UNION {{<<" ", c>>, <<c, " ">>} : c \in OutChars(p) \ WS}
  ELSE {<<c, " ">> : c \in OutChars(p) \ WS}

\* chunks of stderr: a diagnostic starts with a blank and goes on with
\* characters, so that a buffer of blanks only is one of the cases
StderrChunks(p) ==
  IF cerr[p] = <<>>
  THEN {<<c>> : c \in OutChars(p) \cap WS}
  ELSE {<<c>> : c \in OutChars(p) \ WS}

NoArgs == [script |-> scriptPath, mode |-> "none", text |-> <<>>, filePath |-> 0]

\* the failure message of a spawn that could not start the interpreter
SpawnMessage == "spawn ENOENT"

\* err.message (line 107) of a rejected Ingredient.find({})
QueryMessage == "query failed"

Listening(r, p) == python[r] = p /\ pc[r] = "listening"

InitBridge ==
  /\ route = [r \in Requests |-> "none"]
  /\ text = [r \in Requests |-> Undefined]
  /\ hasFile = [r \in Requests |-> FALSE]
  /\ pc = [r \in Requests |-> "idle"]
  /\ python = [r \in Requests |-> 0]
  /\ data = [r \in Requests |-> <<>>]
  /\ errorOutput = [r \in Requests |-> <<>>]
  /\ sends = [r \in Requests |-> <<>>]
  /\ uncaught = [r \in Requests |-> FALSE]
  /\ logs = [r \in Requests |-> {}]
  /\ dbq = [r \in Requests |-> 0]
  /\ query = [r \in Requests |-> "none"]
  /\ fileExists = [r \in Requests |-> FALSE]
  /\ unlink = [r \in Requests |-> "none"]
  /\ spawnCalls = [r \in Requests |-> <<>>]
  /\ cargs = [p \in Pids |-> NoArgs]
  /\ cstate = [p \in Pids |-> "none"]
  /\ cout = [p \in Pids |-> <<>>]
  /\ cerr = [p \in Pids |-> <<>>]
  /\ ccode = [p \in Pids |-> 0]
  /\ nData = 0
  /\ nFaults = 0

\* the module was loaded on a POSIX host without a virtual environment
InitLoaded ==
  /\ sep = "/"
  /\ fsExists = {}
  /\ loaded = TRUE
  /\ loadFs = {}
  /\ pythonPath = getPythonPath(fsExists).path
  /\ fallbackUsed = getPythonPath(fsExists).fallback
  /\ commands = {}

Init ==
  /\ InitBridge
  /\ ingredients = <<>>
  /\ inventory = <<>>
  /\ fetched = FALSE
  /\ InitLoaded

\* the environment fails at most MaxFaults times in one run
Fault(failing) ==
  /\ failing => nFaults < MaxFaults
  /\ nFaults' = IF failing THEN nFaults + 1 ELSE nFaults

\* requests are numbered in the order they arrive
Arrives(r) == pc[r] = "idle" /\ \A q \in Requests : q < r => pc[q] # "idle"

\* spawn() returned a child: "ok" started it, "fail" could not (the 'error'
\* event follows on the next tick). The listeners are registered in the same
\* synchronous run of the handler (lines 75-102, 129-161).
SpawnChild(r, args, outcome) ==
  /\ spawnCalls' = [spawnCalls EXCEPT ![r] = Append(@, [command |-> SpawnCommand, args |-> args, pid |-> NewChild(r)])]
  /\ python' = [python EXCEPT ![r] = NewChild(r)]
  /\ cstate' = [cstate EXCEPT ![NewChild(r)] = IF outcome = "ok" THEN "running" ELSE "failing"]
  /\ cargs' = [cargs EXCEPT ![NewChild(r)] = args]
  /\ pc' = [pc EXCEPT ![r] = "listening"]

\* spawn() threw synchronously (an argument it rejects): no child exists and
\* the handler's catch block answers (lines 103-109, 162-168).
SpawnThrows(r, args) ==
  /\ spawnCalls' = [spawnCalls EXCEPT ![r] = Append(@, [command |-> SpawnCommand, args |-> args, pid |-> 0])]
  /\ Log(r, IF route'[r] = "ask" THEN "Assistant error:" ELSE "Audio assistant error:")
  /\ Send(r, CatchResponse(route'[r], "spawn threw"))
  /\ pc' = [pc EXCEPT ![r] = "done"]
  /\ UNCHANGED <<python, cstate, cargs>>

\* POST /ask, lines 59-66: validation, then the inventory query is issued and
\* the handler suspends at the await.
Ask(r, t) ==
  /\ Arrives(r)
  /\ t \in TextInputs(r)
  /\ route' = [route EXCEPT ![r] = "ask"]
  /\ text' = [text EXCEPT ![r] = t]
  /\ IF TextRejected(t)
     THEN /\ Send(r, NoTextResponse)
          /\ pc' = [pc EXCEPT ![r] = "done"]
          /\ UNCHANGED <<dbq, query>>
     ELSE /\ dbq' = [dbq EXCEPT ![r] = @ + 1]
          /\ query' = [query EXCEPT ![r] = "pending"]
          /\ pc' = [pc EXCEPT ![r] = "awaitDB"]
          /\ UNCHANGED <<sends, uncaught>>
  /\ UNCHANGED <<hasFile, python, data, errorOutput, logs, fileExists, unlink,
                 spawnCalls, cstate, cargs, cout, cerr, ccode, nData, nFaults, inventoryVars, pathVars>>

\* POST /ask, lines 66 and 103-109: the awaited query rejects
AskFetchFails(r) ==
  /\ route[r] = "ask" /\ pc[r] = "awaitDB"
  /\ Fault(TRUE)
  /\ Log(r, "Assistant error:")
  /\ Send(r, CatchResponse("ask", QueryMessage))
  /\ query' = [query EXCEPT ![r] = "rejected"]
  /\ pc' = [pc EXCEPT ![r] = "done"]
  /\ UNCHANGED <<route, text, hasFile, python, data, errorOutput, dbq, fileExists,
                 unlink, spawnCalls, cstate, cargs, cout, cerr, ccode, nData, inventoryVars, pathVars>>

\* POST /ask, lines 66-102: the awaited query resolves, the child is spawned
\* and the four listeners are registered
AskSpawn(r, outcome) ==
  /\ route[r] = "ask" /\ pc[r] = "awaitDB"
  /\ outcome \in {"ok", "fail", "throw"}
  /\ Fault(outcome # "ok")
  /\ query' = [query EXCEPT ![r] = "resolved"]
  /\ UNCHANGED route
  /\ IF outcome = "throw"
     THEN SpawnThrows(r, AskArgs(r))
     ELSE /\ SpawnChild(r, AskArgs(r), outcome)
          /\ UNCHANGED <<sends, uncaught, logs>>
  /\ UNCHANGED <<text, hasFile, data, errorOutput, dbq, fileExists, unlink,
                 cout, cerr, ccode, nData, inventoryVars, pathVars>>

\* POST /audio, lines 112-169: no await, so the handler runs to its end
Audio(r, file, outcome) ==
  /\ Arrives(r)
  /\ file \in BOOLEAN
  /\ outcome \in {"ok", "fail", "throw"}
  /\ route' = [route EXCEPT ![r] = "audio"]
  /\ hasFile' = [hasFile EXCEPT ![r] = file]
  /\ fileExists' = [fileExists EXCEPT ![r] = file]
  /\ Fault(file /\ outcome # "ok")
  /\ IF ~file
     THEN /\ Send(r, NoFileResponse)
          /\ pc' = [pc EXCEPT ![r] = "done"]
          /\ UNCHANGED <<logs, spawnCalls, python, cstate, cargs>>
     ELSE IF outcome = "throw"
          THEN SpawnThrows(r, AudioArgs(r))
          ELSE /\ SpawnChild(r, AudioArgs(r), outcome)
               /\ UNCHANGED <<sends, uncaught, logs>>
  /\ UNCHANGED <<text, data, errorOutput, dbq, query, unlink, cout, cerr, ccode, nData,
                 inventoryVars, pathVars>>

\* ------------------------------------------------------ the child's events
\* the stdout listener writing into one buffer shared by all requests
OnStdoutShared(buf, p, chunk) ==
  [r \in Requests |-> IF python[r] # 0 THEN buf[r] \o chunk ELSE buf[r]]

\* the stdout listener putting the new chunk in front
OnStdoutPrepend(buf, p, chunk) ==
  [r \in Requests |-> IF Listening(r, p) THEN chunk \o buf[r] ELSE buf[r]]

\* lines 75-77 and 129-131: data += chunk.toString(), in the closure of the
\* request that registered the listener on child p
OnStdout(buf, p, chunk) ==
  [r \in Requests |-> IF Listening(r, p) THEN buf[r] \o chunk ELSE buf[r]]

\* lines 79-80 and 133-134: errorOutput += err.toString()
OnStderr(buf, p, chunk) ==
  [r \in Requests |-> IF Listening(r, p) THEN buf[r] \o chunk ELSE buf[r]]

\* python.stdout 'data'
StdoutData(p, chunk) ==
  /\ cstate[p] = "running"
  /\ nData < MaxData
  /\ chunk \in StdoutChunks(p)
  /\ nData' = nData + 1
  /\ cout' = [cout EXCEPT ![p] = @ \o chunk]
  /\ data' = OnStdout(data, p, chunk)
  /\ UNCHANGED <<route, text, hasFile, pc, python, errorOutput, sends, uncaught,
                 logs, dbq, query, fileExists, unlink, spawnCalls, cstate, cargs, cerr, ccode,
                 nFaults, inventoryVars, pathVars>>

\* python.stderr 'data' (lines 79-82, 133-136)
StderrData(p, chunk) ==
  /\ cstate[p] = "running"
  /\ nData < MaxData
  /\ chunk \in StderrChunks(p)
  /\ nData' = nData + 1
  /\ cerr' = [cerr EXCEPT ![p] = @ \o chunk]
  /\ errorOutput' = OnStderr(errorOutput, p, chunk)
  /\ logs' = [r \in Requests |->
                IF Listening(r, p) THEN logs[r] \cup {"Python stderr:"} ELSE logs[r]]
  /\ UNCHANGED <<route, text, hasFile, pc, python, data, sends, uncaught, dbq, query,
                 fileExists, unlink, spawnCalls, cstate, cargs, cout, ccode, nFaults, inventoryVars, pathVars>>

\* the error listener also deleting the upload
UnlinkOnErrorToo(r, p) == IF Listening(r, p) /\ route[r] = "audio" THEN "pending" ELSE unlink[r]

\* lines 84-90 and 155-161: the error listener leaves the upload alone
UnlinkOnError(r, p) == unlink[r]

\* python 'error' (lines 84-90, 155-161): the spawn failed
\* the error listener answering without the failure message
OnErrorNoDetails(r, p) ==
  IF Listening(r, p)
  THEN Append(sends[r], [by |-> "error", status |-> 500,
                         body |-> [error |-> "Failed to start Python process"]])
  ELSE sends[r]

\* lines 86-89 and 157-160: res.status(500).json({error, details: err.message})
OnError(r, p) ==
  IF Listening(r, p)
  THEN Append(sends[r], StartFailedResponse(route[r], SpawnMessage))
  ELSE sends[r]

ChildError(p) ==
  /\ cstate[p] = "failing"
  /\ cstate' = [cstate EXCEPT ![p] = "errored"]
  /\ logs' = [r \in Requests |->
                IF Listening(r, p)
                THEN logs[r] \cup {IF route[r] = "ask" THEN "Failed to start Python process:"
                                   ELSE "Failed to start Python audio process:"}
                ELSE logs[r]]
  /\ sends' = [r \in Requests |-> OnError(r, p)]
  /\ uncaught' = [r \in Requests |-> uncaught[r] \/ (Listening(r, p) /\ sends[r] # <<>>)]
  /\ unlink' = [r \in Requests |-> UnlinkOnError(r, p)]
  /\ UNCHANGED <<route, text, hasFile, pc, python, data, errorOutput, dbq, query,
                 fileExists, spawnCalls, cargs, cout, cerr, ccode, nData, nFaults, inventoryVars, pathVars>>

\* the close listener forgetting the upload
UnlinkSkipped(r, p) == unlink[r]

\* lines 139-142: the close listener of /audio calls fs.unlink(filePath, cb)
UnlinkOnClose(r, p) == IF Listening(r, p) /\ route[r] = "audio" THEN "pending" ELSE unlink[r]

\* a close listener shared by every request that waits for a child
OnCloseAnyChild(r, p, code) ==
  IF pc[r] = "listening"
  THEN Append(sends[r], CloseResponse(route[r], code, data[r], errorOutput[r]))
  ELSE sends[r]

\* a close listener whose exception the handler's catch block would answer
OnCloseCaught(r, p, code) ==
  IF Listening(r, p)
  THEN IF sends[r] = <<>>
       THEN <<CloseResponse(route[r], code, data[r], errorOutput[r])>>
       ELSE sends[r] \o <<CloseResponse(route[r], code, data[r], errorOutput[r]),
                          CatchResponse(route[r], "headers already sent")>>
  ELSE sends[r]

\* lines 93-101 and 144-152: the close listener of p answers the request
\* whose handler spawned p
OnClose(r, p, code) ==
  IF Listening(r, p)
  THEN Append(sends[r], CloseResponse(route[r], code, data[r], errorOutput[r]))
  ELSE sends[r]

\* python 'close' (lines 92-102, 138-153). A child that ran closes with one
\* of ExitCodes once its streams have ended; after a failed spawn the runtime
\* may still emit 'close', carrying the negative errno.
ChildClose(p, code) ==
  /\ \/ cstate[p] = "running" /\ code \in ExitCodes
     \/ cstate[p] = "errored" /\ code \in SpawnFailCodes
  /\ cstate' = [cstate EXCEPT ![p] = "closed"]
  /\ ccode' = [ccode EXCEPT ![p] = code]
  /\ unlink' = [r \in Requests |-> UnlinkOnClose(r, p)]
  /\ logs' = [r \in Requests |->
                IF Listening(r, p) /\ CloseFails(code, errorOutput[r])
                THEN logs[r] \cup {IF route[r] = "ask" THEN "Python process error output:"
                                   ELSE "Python audio process error output:"}
                ELSE logs[r]]
  /\ sends' = [r \in Requests |-> OnClose(r, p, code)]
  /\ uncaught' = [r \in Requests |-> uncaught[r] \/ (Listening(r, p) /\ sends[r] # <<>>)]
  /\ UNCHANGED <<route, text, hasFile, pc, python, data, errorOutput, dbq, query,
                 fileExists, spawnCalls, cargs, cout, cerr, nData, nFaults, inventoryVars, pathVars>>

\* the unlink callback reporting a failed deletion to the client
AfterUnlinkAnswers(r, ok) ==
  IF ok THEN sends[r]
  ELSE Append(sends[r], [by |-> "unlink", status |-> 500,
                         body |-> [error |-> "Failed to delete temp audio file"]])

\* lines 140-142: the callback of fs.unlink never touches res
AfterUnlink(r, ok) == sends[r]

\* lines 140-142: fs.unlink completes; a failure is only logged
UnlinkDone(r, ok) ==
  /\ unlink[r] = "pending"
  /\ ok \in BOOLEAN
  /\ Fault(~ok)
  /\ unlink' = [unlink EXCEPT ![r] = IF ok THEN "ok" ELSE "failed"]
  /\ fileExists' = [fileExists EXCEPT ![r] = IF ok THEN FALSE ELSE @]
  /\ IF ok THEN UNCHANGED logs ELSE Log(r, "Failed to delete temp audio file:")
  /\ sends' = [sends EXCEPT ![r] = AfterUnlink(r, ok)]
  /\ UNCHANGED <<route, text, hasFile, pc, python, data, errorOutput,
                 uncaught, dbq, query, spawnCalls, cstate, cargs, cout, cerr, ccode, nData,
                 inventoryVars, pathVars>>

Next ==
  \/ \E r \in Requests : \E t \in TextInputs(r) : Ask(r, t)
  \/ \E r \in Requests : AskFetchFails(r)
  \/ \E r \in Requests, o \in {"ok", "fail", "throw"} : AskSpawn(r, o)
  \/ \E r \in Requests, f \in BOOLEAN, o \in {"ok", "fail", "throw"} : Audio(r, f, o)
  \/ \E p \in Pids : \E c \in StdoutChunks(p) : StdoutData(p, c)
  \/ \E p \in Pids : \E c \in StderrChunks(p) : StderrData(p, c)
  \/ \E p \in Pids : ChildError(p)
  \/ \E p \in Pids, c \in ExitCodes \cup SpawnFailCodes : ChildClose(p, c)
  \/ \E r \in Requests, ok \in BOOLEAN : UnlinkDone(r, ok)

Spec == Init /\ [][Next]_vars

\* Node emits the 'error' of a failed spawn on the next tick of the event
\* loop: a child that failed to start does get its 'error' event.
SpecLive == Spec /\ \A p \in Pids : WF_vars(ChildError(p))

\* ------------------------------------------------------- inventory fetch
NameChars == {"F", "f", "S"}

\* String.prototype.toLowerCase(), one character
LowerChar(c) == CASE c = "F" -> "f" [] c = "S" -> "s" [] OTHER -> c

\* the key taken as the name is, without lower-casing
toLowerCaseSkipped(s) == s

\* String.prototype.toLowerCase()
toLowerCase(s) == [i \in 1..Len(s) |-> LowerChar(s[i])]

\* the values of item.currentStock
Null == [type |-> "null", num |-> 0]
Undef == [type |-> "undefined", num |-> 0]
Stock(n) == [type |-> "number", num |-> n]
Stocks == {Null, Undef, Stock(5)}

Names == SeqsUpTo(NameChars, MaxNameLen) \ {<<>>}
Items == [name : Names, currentStock : Stocks]

\* line 54: item.currentStock ?? 0
OrZero(v) == IF v.type \in {"null", "undefined"} THEN 0 ELSE v.num

\* inventory[key] = value on a plain object
Put(inv, key, value) ==
  [k \in DOMAIN inv \cup {key} |-> IF k = key THEN value ELSE inv[k]]

\* lines 51-55: ingredients.forEach, in the order of the query result
RECURSIVE forEach(_, _)
forEach(inv, items) ==
  IF items = <<>> THEN inv
  ELSE forEach(Put(inv, toLowerCase(Head(items).name), OrZero(Head(items).currentStock)),
               Tail(items))

\* lines 47-57
fetchInventoryFromDB(items) == forEach(<<>>, items)

InitInventory ==
  /\ InitBridge
  /\ InitLoaded
  /\ ingredients \in SeqsUpTo(Items, MaxRecords)
  /\ inventory = <<>>
  /\ fetched = FALSE

\* one call of fetchInventoryFromDB on the records the query returned
FetchInventory ==
  /\ ~fetched
  /\ inventory' = fetchInventoryFromDB(ingredients)
  /\ fetched' = TRUE
  /\ UNCHANGED <<bridgeVars, ingredients, pathVars>>

NextInventory == FetchInventory

SpecInventory == InitInventory /\ [][NextInventory]_vars

\* ------------------------------------------- module load and later spawns
InitPath ==
  /\ InitBridge
  /\ ingredients = <<>>
  /\ inventory = <<>>
  /\ fetched = FALSE
  /\ sep \in {"/", "\\"}
  /\ fsExists \in SUBSET VenvFiles
  /\ loaded = FALSE
  /\ loadFs = {}
  /\ pythonPath = <<>>
  /\ fallbackUsed = FALSE
  /\ commands = {}

\* lines 40-45: const pythonPath = getPythonPath(), once, when the module loads
LoadModule ==
  /\ ~loaded
  /\ loaded' = TRUE
  /\ loadFs' = fsExists
  /\ pythonPath' = getPythonPath(fsExists).path
  /\ fallbackUsed' = getPythonPath(fsExists).fallback
  /\ UNCHANGED <<bridgeVars, inventoryVars, sep, fsExists, commands>>

\* a virtual environment is created or removed on disk
FsChange(f) ==
  /\ f \in VenvFiles
  /\ fsExists' = IF f \in fsExists THEN fsExists \ {f} ELSE fsExists \cup {f}
  /\ UNCHANGED <<bridgeVars, inventoryVars, sep, loaded, loadFs, pythonPath,
                 fallbackUsed, commands>>

\* lines 70 and 124: a request of route rt reaches its spawn() call; stale
\* tells that the files on disk were no longer those of the module load
PathSpawn(rt) ==
  /\ loaded
  /\ rt \in {"ask", "audio"}
  /\ commands' = commands \cup {[route |-> rt, command |-> SpawnCommand,
                                  stale |-> fsExists # loadFs]}
  /\ UNCHANGED <<bridgeVars, inventoryVars, sep, fsExists, loaded, loadFs,
                 pythonPath, fallbackUsed>>

NextPath ==
  \/ LoadModule
  \/ \E f \in VenvFiles : FsChange(f)
  \/ \E rt \in {"ask", "audio"} : PathSpawn(rt)

SpecPath == InitPath /\ [][NextPath]_vars

\* ------------------------------------------------------------- properties
\* the child of request r has emitted 'close' and r's close listener has run
Closed(r) == pc[r] = "listening" /\ python[r] # 0 /\ cstate[python[r]] = "closed"

\* the res.json calls request r's close, error, ... code made
SendsBy(r, who) == SelectSeq(sends[r], LAMBDA x : x.by = who)

\* C1: for every request and every sequence of child events, including
\* 'error' followed by 'close', a response is sent on the request's response
\* object at most once.
C1_AtMostOneResponse == \A r \in Requests : Len(sends[r]) <= 1

\* text that is missing, not a string, empty or made of blanks only
InvalidText(t) ==
  \/ t.type = "undefined"
  \/ t.type # "string"
  \/ t.str = <<>>
  \/ \A i \in 1..Len(t.str) : t.str[i] \in WS

\* C2: a POST /ask whose text is missing, not a string, empty or
\* whitespace-only is answered 400 with an error field, and neither the
\* inventory query nor a spawn is performed for it.
C2_InvalidTextRejected ==
  \A r \in Requests :
    (route[r] = "ask" /\ InvalidText(text[r])) =>
      /\ Len(sends[r]) = 1
      /\ sends[r][1].status = 400
      /\ "error" \in DOMAIN sends[r][1].body
      /\ dbq[r] = 0
      /\ spawnCalls[r] = <<>>
      /\ python[r] = 0

C2_Witness ==
  \E r \in Requests :
    route[r] = "ask" /\ text[r] = Str(<<" ">>) /\ Len(sends[r]) = 1

\* C3: a POST /ask with valid text whose child closes with code 0 and wrote
\* nothing to stderr is answered { reply: R }, R the trimmed concatenation, in
\* arrival order, of the stdout chunks of that child.
C3_ReplyIsTrimmedStdout ==
  \A r \in Requests :
    (route[r] = "ask" /\ Closed(r) /\ ccode[python[r]] = 0 /\ cerr[python[r]] = <<>>) =>
      sends[r] = <<[by |-> "close", status |-> 200,
                    body |-> [reply |-> trim(cout[python[r]])]]>>

C3_Witness ==
  \E r \in Requests :
    /\ route[r] = "ask" /\ Closed(r) /\ ccode[python[r]] = 0
    /\ cerr[python[r]] = <<>>
    /\ Len(cout[python[r]]) = 4
    /\ trim(cout[python[r]]) # cout[python[r]]
    /\ Len(sends[r]) = 1

\* C4: in both routes, when the child closes with an exit code other than 0,
\* the close listener answers 500 and the code field is exactly that exit
\* code, whatever was written to stdout or stderr.
C4_NonZeroExitIs500 ==
  \A r \in Requests :
    (Closed(r) /\ ccode[python[r]] # 0) =>
      LET cs == SendsBy(r, "close") IN
        /\ Len(cs) = 1
        /\ cs[1].status = 500
        /\ cs[1].body.code = ccode[python[r]]

C4_Witness ==
  \E r \in Requests :
    /\ Closed(r) /\ ccode[python[r]] = 1
    /\ cout[python[r]] # <<>> /\ cerr[python[r]] = <<>>
    /\ Len(SendsBy(r, "close")) = 1

\* C5: in both routes, when a non-empty stderr chunk arrived before 'close',
\* the close listener answers 500 carrying the trimmed stderr text even if the
\* exit code is 0; a run that wrote to stderr never gets a success response.
C5_StderrIs500 ==
  \A r \in Requests :
    (Closed(r) /\ cerr[python[r]] # <<>>) =>
      LET cs == SendsBy(r, "close") IN
        /\ Len(cs) = 1
        /\ cs[1].status = 500
        /\ cs[1].body.stderr = trim(cerr[python[r]])
        /\ \A i \in 1..Len(sends[r]) : sends[r][i].status # 200

C5_Witness ==
  \E r \in Requests :
    /\ Closed(r) /\ ccode[python[r]] = 0
    /\ cerr[python[r]] # <<>>
    /\ trim(cerr[python[r]]) = <<>>
    /\ Len(SendsBy(r, "close")) = 1

\* the child of request r failed to spawn and r's error listener has run
SpawnFailed(r) == pc[r] = "listening" /\ SendsBy(r, "error") # <<>>

\* C6: for every POST /audio with an uploaded file whose child completes
\* ('close', any exit code, any stderr), the temporary upload no longer exists
\* on disk afterwards (once the deletion the close listener started is over).
C6_FileGoneAfterClose ==
  \A r \in Requests :
    (route[r] = "audio" /\ hasFile[r] /\ Closed(r) /\ unlink[r] \in {"ok", "failed"}) =>
      ~fileExists[r]

\* C6, amended: the close listener always starts the deletion of the upload;
\* the file is gone once that deletion has succeeded, and it stays on disk
\* only while the deletion is pending or after it has failed.
C6_UnlinkAttemptedOnClose ==
  \A r \in Requests :
    (route[r] = "audio" /\ hasFile[r] /\ Closed(r)) =>
      /\ unlink[r] # "none"
      /\ unlink[r] = "ok" => ~fileExists[r]
      /\ fileExists[r] => unlink[r] \in {"pending", "failed"}

C6_Witness ==
  \E r \in Requests :
    /\ route[r] = "audio" /\ hasFile[r] /\ Closed(r)
    /\ ccode[python[r]] = 1
    /\ unlink[r] = "ok" /\ ~fileExists[r]

\* C7: for every POST /audio whose child fails to spawn ('error'), deletion
\* of the temporary upload is never attempted for that request.
C7_NoUnlinkAfterSpawnFailure ==
  \A r \in Requests :
    (route[r] = "audio" /\ SpawnFailed(r)) => unlink[r] = "none"

\* C7, amended: the error listener never attempts the deletion; after a
\* spawn failure the upload is deleted only if and when 'close' is emitted
\* for the child, by the close listener.
C7_UnlinkOnlyOnClose ==
  \A r \in Requests :
    /\ unlink[r] # "none" => (route[r] = "audio" /\ Closed(r))
    /\ (route[r] = "audio" /\ SpawnFailed(r) /\ ~Closed(r)) =>
         (unlink[r] = "none" /\ fileExists[r])

C7_Witness ==
  \E r \in Requests :
    /\ route[r] = "audio" /\ SpawnFailed(r)
    /\ cstate[python[r]] = "errored"
    /\ unlink[r] = "none" /\ fileExists[r]

\* the characters a response of request r carries as reply or stderr
ResponseChars(r) ==
  UNION {IF sends[r][i].by # "close" THEN {}
         ELSE IF sends[r][i].status = 200
              THEN Chars(sends[r][i].body.reply)
              ELSE Chars(sends[r][i].body.stderr) : i \in 1..Len(sends[r])}

\* C8: for two overlapping POST /ask with different texts, under every
\* interleaving of their data and close events, each request's buffers and
\* response hold only what its own child emitted.
C8_NoCrossContamination ==
  \A r1, r2 \in Requests :
    (/\ r1 # r2
     /\ route[r1] = "ask" /\ route[r2] = "ask"
     /\ python[r1] # 0 /\ python[r2] # 0
     /\ text[r1] # text[r2]) =>
      /\ data[r1] = cout[python[r1]]
      /\ errorOutput[r1] = cerr[python[r1]]
      /\ (Chars(data[r1]) \cup Chars(errorOutput[r1]) \cup ResponseChars(r1))
           \cap (Chars(text[r2].str) \ WS) = {}

C8_Witness ==
  \E r1, r2 \in Requests :
    /\ r1 # r2
    /\ route[r1] = "ask" /\ route[r2] = "ask"
    /\ text[r1] # text[r2]
    /\ data[r1] # <<>> /\ data[r2] # <<>>
    /\ Closed(r1) /\ SendsBy(r1, "close") # <<>>
    /\ python[r2] # 0 /\ cstate[python[r2]] = "running"

\* the route handler of request r has run to its end
HandlerReturned(r) == pc[r] \in {"done", "listening"}

\* C9: exactly one external process invocation exists per incoming request:
\* every request received spawns exactly one process, and no process is
\* shared by two requests.
C9_ExactlyOneSpawnPerRequest ==
  /\ \A r \in Requests : HandlerReturned(r) => Len(spawnCalls[r]) = 1
  /\ \A r1, r2 \in Requests : (r1 # r2 /\ python[r1] # 0) => python[r1] # python[r2]

\* C9, amended: a request makes at most one spawn call: exactly one once it
\* has passed validation (and, for /ask, its inventory query has resolved),
\* none when it was answered 400 or its query failed; the child a call
\* returns belongs to that request alone.
C9_AtMostOneSpawnPerRequest ==
  /\ \A r \in Requests :
       /\ Len(spawnCalls[r]) <= 1
       /\ pc[r] = "listening" =>
            (Len(spawnCalls[r]) = 1 /\ python[r] = spawnCalls[r][1].pid /\ python[r] # 0)
       /\ (SendsBy(r, "validate") # <<>> \/ pc[r] \in {"idle", "awaitDB"}) =>
            (spawnCalls[r] = <<>> /\ python[r] = 0)
       /\ (route[r] = "audio" /\ hasFile[r]) => Len(spawnCalls[r]) = 1
       /\ (pc[r] = "done" /\ dbq[r] = 1 /\ spawnCalls[r] # <<>>) =>
            (spawnCalls[r][1].pid = 0 /\ python[r] = 0)
  /\ \A r1, r2 \in Requests : (r1 # r2 /\ python[r1] # 0) => python[r1] # python[r2]

C9_Witness ==
  \E r1, r2 \in Requests :
    /\ r1 # r2
    /\ route[r1] = "ask" /\ route[r2] = "audio"
    /\ pc[r1] = "listening" /\ pc[r2] = "listening"
    /\ Len(spawnCalls[r1]) = 1 /\ Len(spawnCalls[r2]) = 1

\* the value fetchInventoryFromDB should store for record i
Expected(i) == OrZero(ingredients[i].currentStock)

LowerName(i) == [k \in 1..Len(ingredients[i].name) |-> LowerChar(ingredients[i].name[k])]

\* C10: for every list of records, fetchInventoryFromDB returns a map in
\* which, for each record, the value under the record's lower-cased name is
\* that record's currentStock, or 0 when it is null or undefined.
C10_EveryRecordStored ==
  fetched =>
    \A i \in 1..Len(ingredients) :
      /\ LowerName(i) \in DOMAIN inventory
      /\ inventory[LowerName(i)] = Expected(i)

\* C10, amended: the keys of the map are the lower-cased names, and the
\* value under a key is the stock (or 0) of the last record of the list with
\* that lower-cased name; so it is every record's own when the lower-cased
\* names are distinct.
C10_LastRecordWins ==
  fetched =>
    /\ DOMAIN inventory = {LowerName(i) : i \in 1..Len(ingredients)}
    /\ \A i \in 1..Len(ingredients) :
         (\A j \in (i + 1)..Len(ingredients) : LowerName(j) # LowerName(i)) =>
           /\ LowerName(i) \in DOMAIN inventory
           /\ inventory[LowerName(i)] = Expected(i)

C10_Witness ==
  /\ fetched
  /\ ingredients = <<[name |-> <<"F">>, currentStock |-> Stock(5)],
                     [name |-> <<"S">>, currentStock |-> Null]>>
  /\ inventory[<<"f">>] = 5
  /\ inventory[<<"s">>] = 0

\* request r has failed: validation, query or spawn exception, spawn failure
\* or process failure
FailedReq(r) ==
  \/ route[r] = "ask" /\ InvalidText(text[r])
  \/ route[r] = "audio" /\ ~hasFile[r]
  \/ pc[r] = "done"
  \/ python[r] # 0 /\ cstate[python[r]] \in {"failing", "errored"}
  \/ Closed(r) /\ (ccode[python[r]] # 0 \/ cerr[python[r]] # <<>>)

\* the response request r received is an error response with an error field
ErrorAnswered(r) ==
  /\ sends[r] # <<>>
  /\ sends[r][1].status \in {400, 500}
  /\ "error" \in DOMAIN sends[r][1].body

\* a failure stays a failure and an answer stays an answer
FailureAndAnswerKept(r) ==
  /\ FailedReq(r) => FailedReq(r)'
  /\ ErrorAnswered(r) => ErrorAnswered(r)'

\* C11: every request that ends in a failure (validation error, spawn
\* failure, process failure, unexpected exception) eventually receives a
\* response body with an error field; no failure is left without a response.
\* Failures and answers are never undone, so FailedReq(r) ~> ErrorAnswered(r)
\* is stated as: from some point on every failed request has its answer.
C11_FailureIsAnswered ==
  /\ [][\A r \in Requests : FailureAndAnswerKept(r)]_vars
  /\ \A r \in Requests : <>[](FailedReq(r) => ErrorAnswered(r))

C11_Witness ==
  \E r1, r2 \in Requests :
    /\ SpawnFailed(r1) /\ ErrorAnswered(r1)
    /\ Closed(r2) /\ ccode[python[r2]] = 1 /\ ErrorAnswered(r2)

\* the console.error message that goes with an error response
LogOf(rt, resp) ==
  CASE resp.by = "error" ->
         IF rt = "ask" THEN "Failed to start Python process:"
         ELSE "Failed to start Python audio process:"
    [] resp.by = "close" ->
         IF rt = "ask" THEN "Python process error output:"
         ELSE "Python audio process error output:"
    [] resp.by = "catch" ->
         IF rt = "ask" THEN "Assistant error:" ELSE "Audio assistant error:"
    [] OTHER -> "none"

\* C12: for every request answered with an error response (HTTP 400 or
\* 500), a server-side error log entry for that failure is emitted before or
\* together with the response.
C12_EveryErrorResponseLogged ==
  \A r \in Requests :
    \A i \in 1..Len(sends[r]) :
      sends[r][i].status \in {400, 500} => logs[r] # {}

\* C12, amended: every HTTP 500 response (error listener, close listener,
\* catch block) has its console.error entry written before or together with
\* it; the HTTP 400 validation responses are sent without any log entry.
C12_Every500Logged ==
  \A r \in Requests :
    \A i \in 1..Len(sends[r]) :
      /\ sends[r][i].status = 500 => LogOf(route[r], sends[r][i]) \in logs[r]
      /\ sends[r][i].status = 400 => logs[r] = {}

C12_Witness ==
  \E r1, r2 \in Requests :
    /\ sends[r1] # <<>> /\ sends[r1][1].by = "catch"
    /\ "Assistant error:" \in logs[r1]
    /\ sends[r2] # <<>> /\ sends[r2][1].status = 400 /\ logs[r2] = {}

\* candidate i exists on disk (as the module was loaded) or has no separator
Eligible(i) == possiblePaths[i] \in loadFs \/ \A k \in 1..Len(possiblePaths[i]) : possiblePaths[i][k] # sep

\* C13: for every combination of the four virtual-environment interpreters
\* existing on disk, getPythonPath returns the first entry of the candidate
\* list that exists on disk or contains no path separator; the fallback
\* return after the loop is never reached.
C13_FirstEligibleCandidate ==
  loaded =>
    /\ ~fallbackUsed
    /\ \E i \in 1..Len(possiblePaths) :
         /\ pythonPath = possiblePaths[i]
         /\ Eligible(i)
         /\ \A j \in 1..(i - 1) : ~Eligible(j)

C13_Witness ==
  /\ loaded
  /\ loadFs = {possiblePaths[2], possiblePaths[4]}
  /\ pythonPath = possiblePaths[2]

\* the child of r could not be started: its 'error' event has been emitted
ErrorEmitted(r) ==
  /\ python[r] # 0
  /\ \/ cstate[python[r]] = "errored"
     \/ cstate[python[r]] = "closed" /\ ccode[python[r]] \in SpawnFailCodes

\* C14: for every POST /ask request whose external process fails to spawn,
\* the error listener sends an HTTP 500 response carrying the failure message
\* in details, and that response is sent before any code of the close listener
\* runs for that process: until the 'error' event is handled nothing has been
\* sent, and the first response afterwards is the error listener's.
C14_SpawnFailureAnsweredByErrorHandler ==
  \A r \in Requests : route[r] = "ask" /\ python[r] # 0 =>
    /\ cstate[python[r]] = "failing" => sends[r] = <<>> /\ logs[r] = {}
    /\ ErrorEmitted(r) =>
         /\ sends[r] # <<>>
         /\ sends[r][1].by = "error"
         /\ sends[r][1].status = 500
         /\ "details" \in DOMAIN sends[r][1].body
         /\ sends[r][1].body.details = SpawnMessage
         /\ cstate[python[r]] = "errored" => Len(sends[r]) = 1

C14_Witness ==
  \E r \in Requests :
    /\ route[r] = "ask" /\ ErrorEmitted(r)
    /\ cstate[python[r]] = "closed"
    /\ Len(sends[r]) = 2
    /\ sends[r][2].by = "close"

\* C15: a POST /ask request with valid text whose inventory query fails is
\* answered with HTTP 500, the generic error 'Assistant failed' and the
\* exception message in details, and no external process is spawned for it;
\* a spawn happens only after the query of that request has resolved.
C15_QueryFailureIs500WithoutSpawn ==
  \A r \in Requests : route[r] = "ask" =>
    /\ query[r] = "rejected" =>
         /\ ~InvalidText(text[r])
         /\ Len(sends[r]) = 1
         /\ sends[r][1].status = 500
         /\ sends[r][1].body.error = "Assistant failed"
         /\ "details" \in DOMAIN sends[r][1].body
         /\ sends[r][1].body.details = QueryMessage
         /\ spawnCalls[r] = <<>>
         /\ python[r] = 0
    /\ spawnCalls[r] # <<>> => query[r] = "resolved"
    /\ query[r] = "pending" => sends[r] = <<>> /\ spawnCalls[r] = <<>>

C15_Witness ==
  \E r1, r2 \in Requests :
    /\ route[r1] = "ask" /\ query[r1] = "rejected" /\ sends[r1] # <<>>
    /\ route[r2] = "ask" /\ query[r2] = "resolved" /\ spawnCalls[r2] # <<>>

\* C16: for every POST /audio request whose process closes, the response of
\* the close listener is determined by the exit code and the two buffers
\* alone, whatever the state of the temp-file deletion (pending, succeeded
\* or failed); a failed deletion is logged and adds no response.
C16_ResponseIndependentOfUnlink ==
  \A r \in Requests : route[r] = "audio" /\ Closed(r) =>
    /\ unlink[r] \in {"pending", "ok", "failed"}
    /\ SendsBy(r, "close") =
         <<CloseResponse("audio", ccode[python[r]], data[r], errorOutput[r])>>
    /\ sends[r][Len(sends[r])].by = "close"
    /\ \A i \in 1..Len(sends[r]) : sends[r][i].by \in {"error", "close"}
    /\ unlink[r] = "failed" => "Failed to delete temp audio file:" \in logs[r]

C16_Witness ==
  \E r1, r2 \in Requests :
    /\ route[r1] = "audio" /\ Closed(r1) /\ unlink[r1] = "ok"
    /\ route[r2] = "audio" /\ Closed(r2) /\ unlink[r2] = "failed"
    /\ sends[r1] = sends[r2]

\* the child of r exists and has emitted neither 'error' nor 'close'
Hung(r) == python[r] # 0 /\ cstate[python[r]] \in {"running", "failing"}

\* C17: a request whose external process has emitted neither 'close' nor
\* 'error' has no response, whatever the other requests and their processes
\* do; a request whose own process has closed has its response, whether or
\* not another request is still waiting.
C17_HungRequestBlocksOnlyItself ==
  \A r \in Requests :
    /\ Hung(r) => sends[r] = <<>> /\ pc[r] = "listening"
    /\ Closed(r) => sends[r] # <<>> /\ sends[r][Len(sends[r])].by = "close"

C17_Witness ==
  \E r1, r2 \in Requests :
    /\ r1 < r2
    /\ Hung(r1) /\ cstate[python[r1]] = "running" /\ sends[r1] = <<>>
    /\ Closed(r2) /\ Len(sends[r2]) = 1

\* the candidate the module load resolved: the first eligible one
ResolvedAtLoad ==
  possiblePaths[CHOOSE i \in 1..Len(possiblePaths) :
                  Eligible(i) /\ \A j \in 1..(i - 1) : ~Eligible(j)]

\* C18: the interpreter path is resolved once, when the module is loaded,
\* and never changes afterwards: every spawn of /ask and /audio is given
\* that path, also when the interpreter files on disk have changed since.
C18_PathFixedAtLoad ==
  /\ ~loaded => commands = {}
  /\ loaded =>
       /\ pythonPath = ResolvedAtLoad
       /\ \A c \in commands : c.command = ResolvedAtLoad

C18_Witness ==
  /\ loaded
  /\ getPythonPath(fsExists).path # pythonPath
  /\ \E c1, c2 \in commands :
       /\ c1.route = "ask" /\ c1.stale
       /\ c2.route = "audio" /\ c2.stale

\* C19: the catch block's response is sent only for a request for which no
\* child process was created; once spawn has returned a child, every
\* response of the request comes from the child's 'error' or 'close'
\* listener, and an exception raised inside a listener stays uncaught: the
\* try/catch of the handler does not answer it.
C19_CatchOnlyWithoutChild ==
  \A r \in Requests :
    /\ \A i \in 1..Len(sends[r]) : sends[r][i].by = "catch" =>
         /\ python[r] = 0
         /\ \A c \in 1..Len(spawnCalls[r]) : spawnCalls[r][c].pid = 0
    /\ python[r] # 0 =>
         \A i \in 1..Len(sends[r]) : sends[r][i].by \in {"error", "close"}
    /\ uncaught[r] =>
         /\ python[r] # 0
         /\ \A i \in 1..Len(sends[r]) : sends[r][i].by # "catch"

C19_Witness ==
  \E r \in Requests :
    /\ uncaught[r]
    /\ python[r] # 0
    /\ Len(sends[r]) = 2
    /\ sends[r][1].by = "error" /\ sends[r][2].by = "close"

====
